---- MODULE Spec2Model ----
(***************************************************************************)
(* g2tpy: the traversal / filter / read / concatenate core (process_files  *)
(* of dpp.py, duplicated in new_main.py) and the remote front-end of       *)
(* new_main.py's main().                                                   *)
(*                                                                         *)
(* Strings are sequences of atoms.  The atom "node_modules" is the marker  *)
(* text; no other atom contains or overlaps it, so substring tests on atom *)
(* sequences agree with Python's `in` on the strings they stand for.       *)
(* A file name is <<stem, suffix>>.  The outcome of every system call      *)
(* (open, os.walk, getsize, read, write, git clone) is chosen when the     *)
(* call is made.  threshold_mb is a float in the program; the model draws  *)
(* it from the integers, where threshold_mb * 1024 * 1024 is exact.        *)
(*                                                                         *)
(* run1 is a run of process_files; run2 is a second run of it with the     *)
(* same arguments on the same tree (every system call answers both runs    *)
(* alike), started over whatever an earlier run left at the output path.   *)
(***************************************************************************)
EXTENDS Integers, Sequences, FiniteSets, TLC

VARIABLES cfg, run1, run2, caller, mpc, url, tempExists, created, exitCode, mfail

vars == <<cfg, run1, run2, caller, mpc, url, tempExists, created, exitCode, mfail>>

\* ---------------------------------------------------------------- bounds
\* directories one walk yields at most
MaxDirs == 2
\* files one walk yields at most, over all its directories
MaxFiles == 2

\* ---------------------------------------------------------------- inputs
Marker == <<"node_modules">>

RepoDirs == { <<"repo">>, <<"node_modules", "-demo">> }
DirNames == { <<"src">>, <<"node_modules">>, <<"my-", "node_modules">> }
FileNames == { <<"a", ".txt">>, <<"node_modules", ".go">>, <<"b", ".bin">> }
ThresholdsMB == {0, 1}
RootKinds == {"dir", "missing", "notdir", "unreadable"}
\* what may lie at the output path before a run: nothing, or an older artifact
Priors == { <<>>, <<[k |-> "stale", cand |-> 0]>> }

Urls == { <<"git@github.com:", "user", "/", "repo">>,
          <<"https://github.com", "/", "user", "/", "repo", "/">>,
          <<"user", "/", "repo">>,
          <<"https://github.com", "/">>,
          <<"user">>,
          <<"user", "/", "repo", "/", "tree">> }
NoUrl == <<>>

\* ---------------------------------------------------------------- strings
Contains(sub, s) ==
    \E k \in 0..(Len(s) - Len(sub)) : SubSeq(s, k + 1, k + Len(sub)) = sub

RECURSIVE rstrip(_)
rstrip(s) ==
    IF s # <<>> /\ s[Len(s)] = "/" THEN rstrip(SubSeq(s, 1, Len(s) - 1)) ELSE s

startswith(s, p) == Len(s) >= Len(p) /\ SubSeq(s, 1, Len(p)) = p

\* the number of '/' characters in one atom
Slashes(a) == IF a = "/" THEN 1 ELSE IF a = "https://github.com" THEN 2 ELSE 0

RECURSIVE SlashCount(_)
SlashCount(s) == IF s = <<>> THEN 0 ELSE Slashes(Head(s)) + SlashCount(Tail(s))

\* len(url.split('/'))
SplitParts(s) == SlashCount(s) + 1

\* TRUE iff normalize_github_url returns (FALSE: it raises ValueError)
normalize_github_url(u) ==
    LET s == rstrip(u) IN
    \/ startswith(s, <<"git@github.com:">>)
    \/ startswith(s, <<"https://github.com", "/">>)
    \/ SplitParts(s) = 2

\* ---------------------------------------------------------------- classifier
NoMime == "None"

guess_type(ext) ==
    CASE ext = ".txt" -> "text/plain"
      [] ext = ".bin" -> "application/octet-stream"
      [] ext = ".json" -> "application/json"
      [] OTHER -> NoMime

text_extensions ==
    { ".txt", ".js", ".py", ".html", ".css", ".md", ".json", ".xml", ".yaml", ".yml",
      ".c", ".cpp", ".h", ".hpp", ".java", ".go", ".sh", ".rb", ".php" }

MimeIsText(m) == m \in {"text/plain"}

is_text_file(filename) ==
    LET ext == filename[Len(filename)]
        mime_type == guess_type(ext)
    IN  IF mime_type = NoMime THEN ext \in text_extensions ELSE MimeIsText(mime_type)

\* ---------------------------------------------------------------- filter
threshold_bytes(threshold_mb) == threshold_mb * 1024 * 1024

TooLarge_ge(include_all, file_size, threshold_mb) ==
    ~include_all /\ file_size >= threshold_bytes(threshold_mb)

TooLarge(include_all, file_size, threshold_mb) ==
    ~include_all /\ file_size > threshold_bytes(threshold_mb)

BinarySkip_always(include_all, filename) == ~is_text_file(filename)

BinarySkip(include_all, filename) == ~include_all /\ ~is_text_file(filename)

Sizes == { 0, threshold_bytes(1), threshold_bytes(1) + 1 }

SkipDir_lastSegment(root) == root[Len(root)] = "node_modules"

SkipDir(root) == Contains(Marker, root)

\* ---------------------------------------------------------------- a run
NewRun(prior) ==
    [ pc |-> "start", root |-> <<>>, files |-> <<>>, i |-> 1, file_size |-> 0,
      processed |-> 0, skipped |-> 0, out |-> prior, outfile |-> "unopened",
      infile |-> FALSE, logged |-> "none", summary |-> <<>>, raised |-> "none",
      prior |-> prior, nOpened |-> 0, nClosed |-> 0, dirs |-> 0, yielded |-> 0,
      discovered |-> 0 ]

InFile(r) == r.pc \in {"files", "read", "write"}
Ended(r) == r.pc \in {"done", "aborted"}

\* candidates of non-excluded directories the loop has finished with
HandledSoFar(r) ==
    IF InFile(r) THEN r.discovered - Len(r.files) + (r.i - 1) ELSE r.discovered

\* the candidate the loop is at, by its place in the traversal
Candidate(r) == HandledSoFar(r) + 1

\* the five writes of one record
Record(c) ==
    << [k |-> "sep", cand |-> c], [k |-> "file", cand |-> c], [k |-> "size", cand |-> c],
       [k |-> "sep_blank", cand |-> c], [k |-> "content", cand |-> c] >>

OpenOutfile_append(r, ok) ==
    IF ok
    THEN [r EXCEPT !.pc = "walk", !.outfile = "open", !.nOpened = @ + 1]
    ELSE [r EXCEPT !.pc = "aborted", !.raised = "open_output", !.logged = "failed"]

\* with open(output_file, "w"): truncates; a failure is logged and re-raised
OpenOutfile(r, ok) ==
    IF ok
    THEN [r EXCEPT !.pc = "walk", !.outfile = "open", !.out = <<>>, !.nOpened = @ + 1]
    ELSE [r EXCEPT !.pc = "aborted", !.raised = "open_output", !.logged = "failed"]

\* the locals of the loops, as they are before the first iteration; they are dead
\* once a loop is left
NoLocals(r) == [r EXCEPT !.files = <<>>, !.i = 1, !.file_size = 0]

\* the walk is exhausted: the with block closes outfile, the summary is logged
Finish(r) ==
    [NoLocals(r) EXCEPT !.pc = "done", !.outfile = "closed", !.nClosed = @ + 1,
                        !.root = <<>>,
                        !.summary = <<r.processed, r.skipped>>, !.logged = "summary"]

\* os.walk yields (root, dirs, files); a root containing the marker is passed over
\* (dirs, yielded, discovered only count what the walk has yielded so far)
NextDir(r, root, files) ==
    LET y == [r EXCEPT !.root = root, !.files = files, !.dirs = @ + 1,
                       !.yielded = @ + Len(files),
                       !.discovered = @ + (IF Contains(Marker, root) THEN 0 ELSE Len(files))]
    IN  IF SkipDir(root) THEN y ELSE [y EXCEPT !.i = 1, !.pc = "files"]

\* the inner for loop is exhausted
EndOfFiles(r) == [NoLocals(r) EXCEPT !.pc = "walk"]

\* total_skipped_files += 1, and on to the next file
Skip(r, why) ==
    [r EXCEPT !.skipped = @ + 1, !.logged = why, !.i = @ + 1, !.pc = "files"]

OnFileError_reraise(r, why) ==
    [r EXCEPT !.pc = "aborted", !.raised = "file", !.logged = "failed",
              !.infile = FALSE, !.outfile = "closed", !.nClosed = @ + 1]

\* except Exception as e: logged, counted as skipped, the loop goes on
OnFileError(r, why) == Skip(r, why)

\* getsize, the two filter tests, and the open of the input file
\* size = -1: os.path.getsize raises
SizeAndOpen(r, size, openOk) ==
    LET filename == r.files[r.i] IN
    IF size < 0 THEN OnFileError(r, "err_getsize")
    ELSE LET s == [r EXCEPT !.file_size = size] IN
         IF TooLarge(cfg.include_all, size, cfg.threshold_mb) THEN Skip(s, "skip_large")
         ELSE IF BinarySkip(cfg.include_all, filename) THEN Skip(s, "skip_binary")
         ELSE IF ~openOk THEN OnFileError(s, "err_open")
         ELSE [s EXCEPT !.pc = "read", !.infile = TRUE]

ReadFile_uncounted(r, res) ==
    CASE res = "decode" -> [r EXCEPT !.infile = FALSE, !.logged = "skip_decode",
                                     !.i = @ + 1, !.pc = "files"]
      [] res = "oserror" -> OnFileError([r EXCEPT !.infile = FALSE], "err_read")
      [] OTHER -> [r EXCEPT !.pc = "write", !.infile = FALSE]

ReadFile_leak(r, res) ==
    CASE res = "decode" -> [Skip(r, "skip_decode") EXCEPT !.infile = TRUE]
      [] res = "oserror" -> OnFileError([r EXCEPT !.infile = FALSE], "err_read")
      [] OTHER -> [r EXCEPT !.pc = "write", !.infile = FALSE]

\* infile.read() inside its with block: the handle is closed on every outcome
ReadFile(r, res) ==
    CASE res = "decode" -> Skip([r EXCEPT !.infile = FALSE], "skip_decode")
      [] res = "oserror" -> OnFileError([r EXCEPT !.infile = FALSE], "err_read")
      [] OTHER -> [r EXCEPT !.pc = "write", !.infile = FALSE]

\* relpath and the five writes; n of them succeed before one raises (5: none raises)
WriteRecord(r, n) ==
    LET w == [r EXCEPT !.out = @ \o SubSeq(Record(Candidate(r)), 1, n)] IN
    IF n < 5 THEN OnFileError(w, "err_write")
    ELSE [w EXCEPT !.processed = @ + 1, !.logged = "processed", !.i = @ + 1,
                   !.pc = "files"]

\* an exception leaves the walk itself: the with block closes outfile, the outer
\* handler logs and re-raises
WalkRaises(r) ==
    [NoLocals(r) EXCEPT !.pc = "aborted", !.raised = "walk", !.logged = "failed",
                        !.root = <<>>, !.outfile = "closed", !.nClosed = @ + 1]

\* ---------------------------------------------------------------- os.walk
\* the directories os.walk may turn to after `root`: a child of it or of an ancestor
Ancestors(root) ==
    { SubSeq(root, 1, n) : n \in { m \in Len(cfg.repo_dir)..Len(root) :
                                     m = Len(root) \/ root[m + 1] = "/" } }

NextRoots(r) ==
    IF r.dirs = 0 THEN { cfg.repo_dir }
    ELSE { p \o <<"/">> \o d : p \in Ancestors(r.root), d \in DirNames }

FileLists(n) ==
    { f \in UNION { [1..m -> FileNames] : m \in 0..n } :
        \A a, b \in DOMAIN f : a # b => f[a] # f[b] }

\* ---------------------------------------------------------------- actions
Running == caller = "direct" \/ mpc = "processing"

Both(a, b) == run1' = a /\ run2' = b

MainVars == <<caller, mpc, url, tempExists, created, exitCode, mfail>>

OpenOutput ==
    /\ Running /\ run1.pc = "start"
    /\ \E ok \in BOOLEAN : Both(OpenOutfile(run1, ok), OpenOutfile(run2, ok))
    /\ UNCHANGED <<cfg, MainVars>>

WalkYield ==
    /\ Running /\ run1.pc = "walk"
    /\ cfg.rootKind = "dir"
    /\ run1.dirs < MaxDirs
    /\ \E root \in NextRoots(run1), files \in FileLists(MaxFiles - run1.yielded) :
          Both(NextDir(run1, root, files), NextDir(run2, root, files))
    /\ UNCHANGED <<cfg, MainVars>>

\* os.walk ends: after the last directory, or at once when scandir(top) fails with an
\* OSError (onerror is None, so the error is dropped)
WalkEnd ==
    /\ Running /\ run1.pc = "walk"
    /\ cfg.rootKind = "dir" => run1.dirs > 0
    /\ Both(Finish(run1), Finish(run2))
    /\ UNCHANGED <<cfg, MainVars>>

WalkFails ==
    /\ Running /\ run1.pc = "walk"
    /\ Both(WalkRaises(run1), WalkRaises(run2))
    /\ UNCHANGED <<cfg, MainVars>>

FilesEnd ==
    /\ Running /\ run1.pc = "files" /\ run1.i > Len(run1.files)
    /\ Both(EndOfFiles(run1), EndOfFiles(run2))
    /\ UNCHANGED <<cfg, MainVars>>

StatFilterOpen ==
    /\ Running /\ run1.pc = "files" /\ run1.i <= Len(run1.files)
    /\ \E size \in Sizes \cup {-1}, openOk \in BOOLEAN :
          Both(SizeAndOpen(run1, size, openOk), SizeAndOpen(run2, size, openOk))
    /\ UNCHANGED <<cfg, MainVars>>

Read ==
    /\ Running /\ run1.pc = "read"
    /\ \E res \in {"ok", "decode", "oserror"} :
          Both(ReadFile(run1, res), ReadFile(run2, res))
    /\ UNCHANGED <<cfg, MainVars>>

Write ==
    /\ Running /\ run1.pc = "write"
    /\ \E n \in 0..5 : Both(WriteRecord(run1, n), WriteRecord(run2, n))
    /\ UNCHANGED <<cfg, MainVars>>

ProcessFiles ==
    \/ OpenOutput \/ WalkYield \/ WalkEnd \/ WalkFails
    \/ FilesEnd \/ StatFilterOpen \/ Read \/ Write

\* ---------------------------------------------------------------- main (remote)
\* download_repository: "ok", or the exception that leaves it
\* clone: what subprocess.run and os.listdir find
download_repository(u, clone) ==
    IF ~normalize_github_url(u) THEN "ValueError"
    ELSE CASE clone = "git_fails" -> "clone_failed"
           [] clone = "git_missing" -> "OSError"
           [] clone = "empty" -> "empty"
           [] OTHER -> "ok"

\* the temporary directory after download_repository: its CalledProcessError
\* handler removes it
TempAfterDownload(temp, result) == IF result = "clone_failed" THEN FALSE ELSE temp

MainEnd_noFinally(temp, failure) ==
    [ temp |-> IF failure = "none" THEN FALSE ELSE temp,
      exit |-> IF failure = "none" THEN 0 ELSE 1 ]

\* finally: shutil.rmtree(temp_dir); except Exception: exit(1)
MainEnd(temp, failure) ==
    [ temp |-> FALSE, exit |-> IF failure = "none" THEN 0 ELSE 1 ]

RunVars == <<cfg, run1, run2>>

\* rmtree of a stale directory, then mkdir (rmtree is taken to remove the directory)
MainSetup ==
    /\ caller = "remote" /\ mpc = "start"
    /\ \E ok \in BOOLEAN :
          IF ok
          THEN /\ tempExists' = TRUE /\ created' = TRUE /\ mpc' = "download"
               /\ UNCHANGED <<exitCode, mfail>>
          ELSE /\ tempExists' = FALSE /\ created' = FALSE /\ mpc' = "exited"
               /\ exitCode' = 1 /\ mfail' = "mkdir"
    /\ UNCHANGED <<RunVars, caller, url>>

MainDownload ==
    /\ caller = "remote" /\ mpc = "download"
    /\ \E clone \in {"ok", "git_fails", "git_missing", "empty"} :
          LET result == download_repository(url, clone)
              temp == TempAfterDownload(tempExists, result)
          IN  IF result = "ok"
              THEN /\ mpc' = "processing" /\ tempExists' = temp
                   /\ UNCHANGED <<exitCode, mfail>>
              ELSE /\ mpc' = "exited" /\ mfail' = result
                   /\ tempExists' = MainEnd(temp, result).temp
                   /\ exitCode' = MainEnd(temp, result).exit
    /\ url' = NoUrl
    /\ UNCHANGED <<RunVars, caller, created>>

\* process_files has returned or raised
MainReturn ==
    /\ caller = "remote" /\ mpc = "processing" /\ Ended(run1)
    /\ LET failure == IF run1.pc = "done" THEN "none" ELSE "process_files" IN
          /\ mfail' = failure
          /\ tempExists' = MainEnd(tempExists, failure).temp
          /\ exitCode' = MainEnd(tempExists, failure).exit
    /\ mpc' = "exited"
    /\ UNCHANGED <<RunVars, caller, url, created>>

Main == MainSetup \/ MainDownload \/ MainReturn

Init ==
    /\ cfg \in [ repo_dir : RepoDirs, threshold_mb : ThresholdsMB,
                 include_all : BOOLEAN, rootKind : RootKinds ]
    /\ run1 \in { NewRun(p) : p \in Priors }
    /\ run2 \in { NewRun(p) : p \in Priors }
    /\ created = FALSE /\ exitCode = -1 /\ mfail = "none"
    /\ \/ /\ caller = "direct"
          /\ mpc = "none" /\ url = NoUrl /\ tempExists = FALSE
       \/ /\ caller = "remote"
          /\ cfg.rootKind = "dir"
          /\ mpc = "start" /\ url \in Urls /\ tempExists \in BOOLEAN

Next == ProcessFiles \/ Main

Spec == Init /\ [][Next]_vars

\* ================================================================ claims
ErrorLogs == {"err_getsize", "err_open", "err_read", "err_write"}

\* C1: every candidate of a directory without the marker adds exactly 1 to exactly
\* one of processed and skipped, neither counter ever decreases, after each
\* candidate their sum is the number of candidates handled so far, and at the end
\* it is the number of files discovered outside excluded directories.
C1_Accounting ==
    /\ [](run1.processed + run1.skipped = HandledSoFar(run1))
    /\ [](run1.pc = "done" => run1.processed + run1.skipped = run1.discovered)
    /\ [][ /\ run1'.processed \in {run1.processed, run1.processed + 1}
           /\ run1'.skipped \in {run1.skipped, run1.skipped + 1}
           /\ ~(run1'.processed # run1.processed /\ run1'.skipped # run1.skipped)
           /\ (InFile(run1) /\ InFile(run1') /\ run1'.i = run1.i + 1)
                 => (run1'.processed + run1'.skipped = run1.processed + run1.skipped + 1)
         ]_vars

C1_Witness ==
    /\ run1.pc = "done" /\ run1.processed = 1 /\ run1.skipped = 1
    /\ run1.dirs = 2 /\ run1.yielded = 2 /\ run1.discovered = 2

C3_OnlyDecodeSkips ==
    [][ (cfg.include_all /\ run1'.skipped = run1.skipped + 1)
           => run1'.logged = "skip_decode" ]_vars

\* C3 as amended: with include_all true no file is skipped for its size or its
\* classification; skipped is incremented only by a UnicodeDecodeError or by another
\* exception raised while sizing, opening, reading or writing the file.
C3_DecodeOrErrorSkips ==
    [][ (cfg.include_all /\ run1'.skipped = run1.skipped + 1)
           => run1'.logged \in {"skip_decode"} \cup ErrorLogs ]_vars

C3_Witness ==
    /\ cfg.include_all /\ run1.pc = "files" /\ run1.i = 2
    /\ run1.logged = "skip_decode" /\ run1.skipped = 1
    /\ run1.file_size > cfg.threshold_mb * 1024 * 1024
    /\ ~is_text_file(run1.files[1])

\* C4: a directory whose yielded path contains "node_modules" contributes no
\* candidate (nothing of it is sized, read, written or counted), nested
\* directories included; a directory whose path does not contain it has its
\* files handled, whatever their names.
C4_DirectoryExclusion ==
    /\ [](InFile(run1) => ~Contains(Marker, run1.root))
    /\ [][ run1'.dirs = run1.dirs + 1
             => IF Contains(Marker, run1'.root)
                THEN /\ run1'.pc = "walk"
                     /\ run1'.processed = run1.processed /\ run1'.skipped = run1.skipped
                     /\ run1'.out = run1.out /\ run1'.infile = run1.infile
                     /\ run1'.file_size = run1.file_size /\ run1'.logged = run1.logged
                     /\ run1'.discovered = run1.discovered
                ELSE /\ run1'.pc = "files" /\ run1'.i = 1
                     /\ run1'.discovered = run1.discovered + Len(run1'.files)
         ]_vars

C4_Witness ==
    /\ run1.pc = "walk" /\ run1.dirs = 2
    /\ run1.root = <<"node_modules", "-demo", "/", "src">>
    /\ run1.files = << <<"a", ".txt">> >>
    /\ run1.processed = 0 /\ run1.skipped = 0 /\ run1.out = <<>>

\* C5: once the output is open, a failure on one candidate increments skipped and
\* the loop goes on with the next candidate; the run is aborted only by a failed
\* open of the output or by an exception of the walk itself, and a run that is not
\* aborted handles every candidate and logs the summary.
C5_PerFileFailuresDoNotAbort ==
    /\ [][ (InFile(run1) /\ run1.i <= Len(run1.files))
             => /\ InFile(run1') /\ run1'.raised = "none" /\ run1'.outfile = "open"
                /\ (run1'.logged \in ({"skip_large", "skip_binary", "skip_decode"}
                                       \cup ErrorLogs) /\ run1'.pc = "files")
                      => /\ run1'.skipped = run1.skipped + 1
                         /\ run1'.processed = run1.processed
                         /\ run1'.i = run1.i + 1
         ]_vars
    /\ [](run1.pc = "aborted" => run1.raised \in {"open_output", "walk"})
    /\ [](run1.pc = "done" => /\ run1.summary = <<run1.processed, run1.skipped>>
                              /\ run1.processed + run1.skipped = run1.discovered
                              /\ run1.raised = "none")

C5_Witness ==
    /\ run1.pc = "done" /\ run1.skipped = 1 /\ run1.processed = 1
    /\ run1.out = Record(2) /\ run1.summary = <<1, 1>>

\* C6 as claimed: process_files called with a root that does not exist, is not a
\* directory or cannot be enumerated raises; it never completes and never logs a
\* summary.
C6_BadRootIsFatal ==
    cfg.rootKind # "dir" => (run1.pc # "done" /\ run1.summary = <<>>)

RECURSIVE RecordsOf(_, _)
RecordsOf(S, n) ==
    IF n = 0 THEN <<>>
    ELSE RecordsOf(S, n - 1) \o (IF n \in S THEN Record(n) ELSE <<>>)

\* C7 as claimed: when a run completes, the artifact is exactly one complete record
\* per processed file, in traversal order, and nothing else: as many records as
\* processed, none twice, and no byte from a skipped file.
C7_ArtifactMatchesCounters ==
    run1.pc = "done"
       => \E S \in SUBSET (1..run1.discovered) :
             /\ Cardinality(S) = run1.processed
             /\ run1.out = RecordsOf(S, run1.discovered)

\* C8: two runs with the same arguments on the same tree end alike: the same
\* counters and summary, and the same artifact, whatever lay at the output path
\* before each (a run that could not open the output leaves the path as it was).
C8_Determinism ==
    Ended(run1)
       => /\ run2.pc = run1.pc /\ run2.raised = run1.raised
          /\ run2.processed = run1.processed /\ run2.skipped = run1.skipped
          /\ run2.summary = run1.summary
          /\ run1.nOpened = 1 => run2.out = run1.out
          /\ run1.nOpened = 0 => (run1.out = run1.prior /\ run2.out = run2.prior)

C8_Witness ==
    /\ run1.pc = "done" /\ run1.prior = <<>> /\ run2.prior # <<>>
    /\ run1.processed = 1 /\ run1.skipped = 1 /\ run2.out = Record(1)

\* C9: the output is opened at most once, truncating, before any candidate; a
\* failed open raises and no candidate is handled; an opened output is closed
\* exactly once on every exit, nothing is written after the close, and the input
\* handle of a candidate is closed before the next one, decode failures included.
C9_HandleLifecycle ==
    /\ [] /\ run1.nOpened <= 1 /\ run1.nClosed <= run1.nOpened
          /\ (run1.outfile = "open") <=> (run1.nOpened = 1 /\ run1.nClosed = 0)
          /\ InFile(run1) => run1.outfile = "open"
          /\ run1.raised = "open_output"
                => /\ run1.pc = "aborted" /\ run1.nOpened = 0 /\ run1.out = run1.prior
                   /\ run1.dirs = 0 /\ run1.processed + run1.skipped = 0
          /\ (Ended(run1) /\ run1.nOpened = 1)
                => (run1.nClosed = 1 /\ run1.outfile = "closed")
          /\ run1.infile => run1.pc = "read"
    /\ [][ /\ run1'.out # run1.out => run1'.outfile = "open"
           /\ run1'.nOpened # run1.nOpened
                 => (run1.pc = "start" /\ run1'.out = <<>> /\ run1.dirs = 0)
           /\ run1.outfile = "closed" => run1'.outfile = "closed"
         ]_vars

C9_Witness ==
    /\ run1.pc = "aborted" /\ run1.raised = "walk" /\ run1.nClosed = 1
    /\ run1.logged = "failed" /\ run1.skipped = 1 /\ run1.processed = 1

====
